---- MODULE Spec2Model ----
(***************************************************************************)
(* A model of the TweetCapture API service (src/main.py): the startup      *)
(* bucket check, the POST /capture handler with its deferred cleanup       *)
(* tasks, the object-key generator, and the image normaliser               *)
(* process_for_instagram.                                                  *)
(*                                                                         *)
(* Strings are sequences of one-character strings, so that str.replace,    *)
(* str.startswith and the re.search of generate_filename are computed the  *)
(* way Python computes them.  An Optional value is a sequence of length    *)
(* at most one: None is <<>> and a present value v is <<v>>.               *)
(*                                                                         *)
(* Modelling assumptions, all about things outside src/main.py:            *)
(*  - datetime.now() never goes backwards (clock is a counter of seconds); *)
(*  - uuid.uuid4() returns a value never returned before (the 2^-32 chance *)
(*    of two equal 8-hex prefixes is outside the model);                   *)
(*  - ImageOps.contain and Image.resize behave as in Pillow: the free      *)
(*    dimension is round(src * target / src_other) with Python's           *)
(*    round-half-to-even, and resize raises ValueError for a dimension     *)
(*    below 1;                                                             *)
(*  - the handler runs on one event loop, so it is atomic between awaits:  *)
(*    its only await is tweet_capture.screenshot.                          *)
(***************************************************************************)
EXTENDS Integers, Sequences, FiniteSets, TLC

VARIABLES
    \* ---- the service (specification Spec) ----
    endpoint,      \* MINIO_PUBLIC_ENDPOINT, fixed by the environment
    bucket,        \* TRUE iff MINIO_BUCKET exists in the object store
    startup,       \* position of startup_event / ensure_bucket_exists
    startup_error, \* the error that ended startup, <<>> when none
    clock,         \* datetime.now(), in whole seconds
    pc,            \* per request: position of capture_tweet
    request,       \* per request: the TweetCaptureRequest body
    start_time,    \* per request: start_time
    object_name,   \* per request: object_name (Optional)
    temp_file_path,  \* per request: temp_file_path (Optional)
    final_file_path, \* per request: final_file_path (Optional)
    response,      \* per request: the HTTP response (Optional)
    failed_at,     \* per request: the stage whose error ended it (history)
    uploads,       \* per request: number of fput_object calls (history)
    tasks,         \* per request: background_tasks not yet run
    cleaned,       \* per request: cleanup_temp_file runs so far (history)
    disk,          \* temporary files that exist
    store,         \* objects in the bucket: set of <<key, uploading request>>
    \* ---- one call of the normaliser (specification SpecNormalize) ----
    flags,         \* the six media-hide flags of the request
    crop_top,      \* request.crop_top
    img,           \* the raster opened from image_path
    npc,           \* position inside the normaliser
    has_media,     \* has_media as decided by capture_tweet
    cropped,       \* the region handed to the fit step
    fg_fit,        \* size of the resampled foreground
    off,           \* paste offset
    bg             \* size of the saved canvas

svcVars == <<endpoint, bucket, startup, startup_error, clock, pc, request,
             start_time, object_name, temp_file_path, final_file_path, response,
             failed_at, uploads, tasks, cleaned, disk, store>>
normVars == <<flags, crop_top, img, npc, has_media, cropped, fg_fit, off, bg>>
vars == <<svcVars, normVars>>

None == <<>>
Some(v) == <<v>>

\* ---------------------------------------------------------------- bounds
MaxW == 4
MaxH == 4
MaxCrop == 5
NReq == 1
MaxClock == 1

\* ------------------------------------------------------ program constants
size_w == 1080
size_h == 1350

\* ------------------------------------------------------------ strings
IsPrefixAt(p, s, i) ==
    /\ i + Len(p) - 1 <= Len(s)
    /\ \A k \in 1..Len(p) : s[i + k - 1] = p[k]

startswith(s, p) == IsPrefixAt(p, s, 1)

RECURSIVE ReplaceFrom(_, _, _, _)
ReplaceFrom(s, old, new, i) ==
    IF i > Len(s) THEN <<>>
    ELSE IF IsPrefixAt(old, s, i)
         THEN new \o ReplaceFrom(s, old, new, i + Len(old))
         ELSE <<s[i]>> \o ReplaceFrom(s, old, new, i + 1)

\* str.replace(old, new): every non-overlapping occurrence, left to right
str_replace(s, old, new) == ReplaceFrom(s, old, new, 1)

\* ------------------------------------------------------ image normaliser
IndividualFlags == {"hide_photos", "hide_videos", "hide_gifs", "hide_quotes",
                    "hide_link_previews"}

\* a plausible slip: media counts as hidden only when every flag is set
HasMedia_unless_all_set(f) ==
    ~(f.hide_all_medias /\ \A n \in IndividualFlags : f[n])

\* has_media as computed on lines 229-235
HasMedia(f) ==
    ~f.hide_all_medias /\
        (~f.hide_photos \/ ~f.hide_videos \/ ~f.hide_gifs \/ ~f.hide_quotes
            \/ ~f.hide_link_previews)

\* a plausible slip: the guard lets crop_top = h through
crop_box_inclusive_guard(image, ct) ==
    IF ct <= image.h
    THEN [w |-> image.w, h |-> image.h - ct, top |-> image.top + ct]
    ELSE image

\* crop_box and img.crop of the non-media branch.  A raster is its width, its
\* height and the index (from 0) of the source row that is its first row.
crop_box(image, ct) ==
    IF ct < image.h
    THEN [w |-> image.w, h |-> image.h - ct, top |-> image.top + ct]
    ELSE image

\* the region that is fitted: the media branch does not crop
Region(image, media, ct) == IF media THEN image ELSE crop_box(image, ct)

\* Python's round() of p/q for p >= 0, q > 0
RoundHalfEven(p, q) ==
    LET f == p \div q
        r == p % q
    IN  IF 2 * r < q THEN f
        ELSE IF 2 * r > q THEN f + 1
        ELSE IF f % 2 = 0 THEN f ELSE f + 1

\* ImageOps.contain(image, (tw, th)): the size it asks resize for
contain(image, tw, th) ==
    IF image.w * th = tw * image.h THEN [w |-> tw, h |-> th]
    ELSE IF image.w * th > tw * image.h
         THEN [w |-> tw, h |-> RoundHalfEven(image.h * tw, image.w)]
         ELSE [w |-> RoundHalfEven(image.w * th, image.h), h |-> th]

\* Image.resize raises ValueError unless both dimensions are at least 1
ResizeOk(sz) == sz.w >= 1 /\ sz.h >= 1

\* off = ((size_w - fg_w) // 2, (size_h - fg_h) // 2)
Offset(fg, tw, th) == [x |-> (tw - fg.w) \div 2, y |-> (th - fg.h) \div 2]

\* process_for_instagram as a whole: the canvas written, or the error raised
process_for_instagram(image, tw, th, media, ct) ==
    LET region == Region(image, media, ct)
        fit == contain(region, tw, th)
    IN  IF ResizeOk(fit)
        THEN [ok |-> TRUE, bg |-> [w |-> tw, h |-> th], fg |-> fit,
              off |-> Offset(fit, tw, th)]
        ELSE [ok |-> FALSE]

\* ------------------------------------------- one call of the normaliser
FlagNames == {"hide_photos", "hide_videos", "hide_gifs", "hide_quotes",
              "hide_link_previews", "hide_all_medias"}

\* source rasters: every small size, the sizes the specification names, and
\* sizes of extreme aspect ratio
SourceSizes ==
    ((1..MaxW) \X (1..MaxH))
        \cup {<<800, 600>>, <<1080, 1350>>, <<540, 675>>, <<2159, 1>>,
              <<2160, 1>>, <<2161, 1>>, <<1, 2699>>, <<1, 2701>>, <<3000, 2>>}

NoRaster == [w |-> 0, h |-> 0, top |-> 0]
NoSize == [w |-> 0, h |-> 0]
NoOffset == [x |-> 0, y |-> 0]

\* the service, not started, while the normaliser is studied on its own
SvcIdle ==
    /\ endpoint = <<>>
    /\ bucket = FALSE
    /\ startup = "off"
    /\ startup_error = None
    /\ clock = 0
    /\ pc = <<>>
    /\ request = <<>>
    /\ start_time = <<>>
    /\ object_name = <<>>
    /\ temp_file_path = <<>>
    /\ final_file_path = <<>>
    /\ response = <<>>
    /\ failed_at = <<>>
    /\ uploads = <<>>
    /\ tasks = <<>>
    /\ cleaned = <<>>
    /\ disk = {}
    /\ store = {}

NormInit ==
    /\ SvcIdle
    /\ flags \in [FlagNames -> BOOLEAN]
    /\ crop_top \in 0..MaxCrop
    /\ \E s \in SourceSizes : img = [w |-> s[1], h |-> s[2], top |-> 0]
    /\ npc = "start"
    /\ has_media = FALSE
    /\ cropped = NoRaster
    /\ fg_fit = NoSize
    /\ off = NoOffset
    /\ bg = NoSize

\* capture_tweet, lines 229-235
DecideMedia ==
    /\ npc = "start"
    /\ has_media' = HasMedia(flags)
    /\ npc' = "decided"
    /\ UNCHANGED <<flags, crop_top, img, cropped, fg_fit, off, bg>>
    /\ UNCHANGED svcVars

\* process_for_instagram, lines 146 and 160-162: the region to fit
Crop ==
    /\ npc = "decided"
    /\ cropped' = Region(img, has_media, crop_top)
    /\ npc' = "cropped"
    /\ UNCHANGED <<flags, crop_top, img, has_media, fg_fit, off, bg>>
    /\ UNCHANGED svcVars

\* ImageOps.contain, lines 148 and 165
Fit ==
    /\ npc = "cropped"
    /\ fg_fit' = contain(cropped, size_w, size_h)
    /\ npc' = IF ResizeOk(fg_fit') THEN "fitted" ELSE "ValueError"
    /\ UNCHANGED <<flags, crop_top, img, has_media, cropped, off, bg>>
    /\ UNCHANGED svcVars

\* Image.new, paste and save, lines 150-156 and 167-173
Paste ==
    /\ npc = "fitted"
    /\ bg' = [w |-> size_w, h |-> size_h]
    /\ off' = Offset(fg_fit, size_w, size_h)
    /\ npc' = "saved"
    /\ UNCHANGED <<flags, crop_top, img, has_media, cropped, fg_fit>>
    /\ UNCHANGED svcVars

NormNext ==
    \/ DecideMedia
    \/ Crop
    \/ Fit
    \/ Paste

SpecNormalize == NormInit /\ [][NormNext]_vars

\* ------------------------------------------------------- the service
Digits == {"0", "1", "2", "3", "4", "5", "6", "7", "8", "9"}
Letters == {"a", "b", "c", "d", "e", "f", "g", "h", "i", "j", "k", "l", "m",
            "n", "o", "p", "q", "r", "s", "t", "u", "v", "w", "x", "y", "z"}
\* \w of the re module, over the characters the model uses
WordChars == Letters \cup Digits \cup {"_"}

HexDigit(n) == <<"0", "1", "2", "3", "4", "5", "6", "7", "8", "9",
                 "a", "b", "c", "d", "e", "f">>[(n % 16) + 1]
DecDigit(n) == HexDigit(n % 10)

S_storage == <<"s", "t", "o", "r", "a", "g", "e">>
S_storage_api == S_storage \o <<"-", "a", "p", "i">>
S_https == <<"h", "t", "t", "p", "s", ":", "/", "/">>
S_twitter == S_https \o <<"t", "w", "i", "t", "t", "e", "r", ".", "c", "o", "m", "/">>
S_x == S_https \o <<"x", ".", "c", "o", "m", "/">>
S_status == <<"/", "s", "t", "a", "t", "u", "s", "/">>
S_png == <<".", "p", "n", "g">>
S_tweet == <<"t", "w", "e", "e", "t", "_">>
\* MINIO_BUCKET, line 77
MINIO_BUCKET == <<"t", "w", "e", "e", "t", "c", "a", "p", "t", "u", "r", "e", "s">>
\* MINIO_PUBLIC_ENDPOINT, line 79: the default, and a deployment whose
\* storage host is named after the word the handler rewrites
PublicEndpoints ==
    { <<"h", "t", "t", "p", ":", "/", "/">>
          \o <<"l", "o", "c", "a", "l", "h", "o", "s", "t", ":", "9", "0", "0", "0">>,
      S_https \o S_storage \o <<".", "x", ".", "i", "o">> }

\* the i-th value of uuid.uuid4(), as hex: str(uuid.uuid4())[:8] and .hex
\* both begin with these eight characters
Hex8(n) == <<"0", "0", "0", "0", "0", "0", HexDigit(n \div 16), HexDigit(n)>>

\* datetime.now().strftime("%Y%m%d_%H%M%S"), the clock counting seconds from
\* 2026-11-02 17:55:00
strftime(t) ==
    <<"2", "0", "2", "6", "1", "1", "0", "2", "_", "1", "7", "5", "5",
      DecDigit(t \div 10), DecDigit(t)>>

\* validate_tweet_url, lines 55-59
validate_tweet_url(v) == startswith(v, S_twitter) \/ startswith(v, S_x)

\* the last index of the run of characters of C that starts at i (i - 1 when
\* s[i] is not in C)
RunEnd(s, i, C) ==
    CHOOSE j \in (i - 1)..Len(s) :
        /\ \A k \in i..j : s[k] \in C
        /\ j = Len(s) \/ s[j + 1] \notin C

\* re.search(r'\/(\w+)\/status\/(\d+)', s) matching at position i.  \w+ is
\* greedy and must be followed by "/", which is no word character, so the
\* group is the whole run of word characters.
MatchAt(s, i) ==
    /\ s[i] = "/"
    /\ LET j == RunEnd(s, i + 1, WordChars)
       IN  /\ j >= i + 1
           /\ IsPrefixAt(S_status, s, j + 1)
           /\ RunEnd(s, j + 1 + Len(S_status), Digits) >= j + 1 + Len(S_status)

re_search(s) ==
    IF \E i \in 1..Len(s) : MatchAt(s, i)
    THEN LET i == CHOOSE i \in 1..Len(s) :
                      MatchAt(s, i) /\ \A k \in 1..(i - 1) : ~MatchAt(s, k)
             j == RunEnd(s, i + 1, WordChars)
             d == j + 1 + Len(S_status)
         IN  Some([username |-> SubSeq(s, i + 1, j),
                   tweet_id |-> SubSeq(s, d, RunEnd(s, d, Digits))])
    ELSE None

\* generate_filename, lines 105-114.  now is datetime.now() in seconds, u the
\* value uuid.uuid4() returns if it is called.
generate_filename(tweet_url, custom_filename, now, u) ==
    LET timestamp == strftime(now)
        match == re_search(tweet_url)
    IN  IF custom_filename # None /\ custom_filename[1] # <<>>
        THEN custom_filename[1] \o <<"_">> \o timestamp \o <<"_">> \o Hex8(u) \o S_png
        ELSE IF match # None
        THEN <<"@">> \o match[1].username \o <<"_">> \o match[1].tweet_id
                 \o <<"_">> \o timestamp \o S_png
        ELSE S_tweet \o timestamp \o <<"_">> \o Hex8(u) \o S_png

\* upload_to_minio, line 100: the URL returned after fput_object
upload_url(ep, name) == ep \o <<"/">> \o MINIO_BUCKET \o <<"/">> \o name

\* the success response, lines 255-263
SuccessResponse(file_url, name, size, elapsed) ==
    [status |-> 200, success |-> TRUE,
     message |-> <<"Tweet captured successfully">>,
     file_url |-> Some(str_replace(file_url, S_storage, S_storage_api)),
     filename |-> Some(name),
     file_size |-> Some(size),
     processing_time |-> Some(elapsed)]

\* a plausible slip: the message is str(e) alone, empty for an exception
\* raised without arguments
ErrorResponse_bare_message(e, elapsed) ==
    [status |-> 200, success |-> FALSE, message |-> e,
     file_url |-> None, filename |-> None, file_size |-> None,
     processing_time |-> Some(elapsed)]

\* the response of the except branch, lines 271-275; e is str(e)
ErrorResponse(e, elapsed) ==
    [status |-> 200, success |-> FALSE, message |-> <<"Error: ">> \o e,
     file_url |-> None, filename |-> None, file_size |-> None,
     processing_time |-> Some(elapsed)]

\* background tasks added on the success path, lines 252-253
SuccessTasks(temp, final) == <<temp, final>>

\* a plausible slip: the except branch forgets the normalised file
ExceptTasks_temp_only(temp, final) == temp

\* background tasks added by the except branch, lines 266-269
ExceptTasks(temp, final) == temp \o final

\* str(e) of what tweet_capture.screenshot raises: an exception without
\* arguments has the empty string
CaptureErrors == {<<>>, <<"Timeout 30000ms exceeded">>}
\* str(e) of Image.open on an unreadable file, and of Image.resize
UnreadableError == <<"cannot identify image file">>
ResizeError == <<"height and width must be > 0">>
\* str(e) of the HTTPException raised by upload_to_minio, line 103
UploadError == <<"500: Failed to upload file: S3Error">>

\* rasters the capture engine may write
Rasters == { [w |-> 800, h |-> 600, top |-> 0], [w |-> 2200, h |-> 11, top |-> 0] }

DefaultFlags == [n \in FlagNames |-> FALSE]

\* request bodies, each accepted by the validation of lines 29-59
RequestSamples ==
    { [url |-> S_x \o <<"a">> \o S_status \o <<"1">>,
       filename |-> None, flags |-> DefaultFlags, crop_top |-> 10],
      [url |-> S_x \o <<"a">> \o S_status \o <<"1">>,
       filename |-> Some(S_storage), flags |-> DefaultFlags, crop_top |-> 10],
      [url |-> S_twitter \o <<"h", "o", "m", "e">>,
       filename |-> None,
       flags |-> [DefaultFlags EXCEPT !["hide_all_medias"] = TRUE],
       crop_top |-> 10] }

\* the requests of a run
Reqs == DOMAIN pc

NormIdle ==
    /\ flags = DefaultFlags
    /\ crop_top = 0
    /\ img = NoRaster
    /\ npc = "off"
    /\ has_media = FALSE
    /\ cropped = NoRaster
    /\ fg_fit = NoSize
    /\ off = NoOffset
    /\ bg = NoSize

\* the state after construction, for a run of n requests
SvcInit(n) ==
    /\ endpoint \in PublicEndpoints
    /\ bucket \in BOOLEAN
    /\ startup = "bucket_exists"
    /\ startup_error = None
    /\ clock = 0
    /\ pc = [r \in 1..n |-> "idle"]
    /\ request = [r \in 1..n |-> None]
    /\ start_time = [r \in 1..n |-> 0]
    /\ object_name = [r \in 1..n |-> None]
    /\ temp_file_path = [r \in 1..n |-> None]
    /\ final_file_path = [r \in 1..n |-> None]
    /\ response = [r \in 1..n |-> None]
    /\ failed_at = [r \in 1..n |-> "none"]
    /\ uploads = [r \in 1..n |-> 0]
    /\ tasks = [r \in 1..n |-> <<>>]
    /\ cleaned = [r \in 1..n |-> <<>>]
    /\ disk = {}
    /\ store = {}

reqVars == <<pc, request, start_time, object_name, temp_file_path, final_file_path,
             response, failed_at, uploads, tasks, cleaned, disk, store>>

\* ensure_bucket_exists, line 90: minio_client.bucket_exists
BucketExists ==
    /\ startup = "bucket_exists"
    /\ startup' = IF bucket THEN "up" ELSE "make_bucket"
    /\ UNCHANGED <<endpoint, bucket, startup_error, clock, reqVars, normVars>>

\* ensure_bucket_exists, lines 91-95: minio_client.make_bucket answers a
\* bucket that exists by now with S3Error BucketAlreadyOwnedByYou, which the
\* except clause logs and raises again
MakeBucket ==
    /\ startup = "make_bucket"
    /\ IF bucket
       THEN /\ startup' = "failed"
            /\ startup_error' = Some("BucketAlreadyOwnedByYou")
            /\ UNCHANGED bucket
       ELSE /\ bucket' = TRUE
            /\ startup' = "up"
            /\ UNCHANGED startup_error
    /\ UNCHANGED <<endpoint, clock, reqVars, normVars>>

\* ensure_bucket_exists, lines 93-95: any other S3Error of either call
StorageUnavailable ==
    /\ startup \in {"bucket_exists", "make_bucket"}
    /\ startup' = "failed"
    /\ startup_error' = Some("S3Error")
    /\ UNCHANGED <<endpoint, bucket, clock, reqVars, normVars>>

\* another process of the deployment creates the bucket while this one starts
OtherProcessMakesBucket ==
    /\ startup \in {"bucket_exists", "make_bucket"}
    /\ ~bucket
    /\ bucket' = TRUE
    /\ UNCHANGED <<endpoint, startup, startup_error, clock, reqVars, normVars>>

\* a second passes
Tick ==
    /\ startup = "up"
    /\ clock < MaxClock
    /\ clock' = clock + 1
    /\ UNCHANGED <<endpoint, bucket, startup, startup_error, reqVars, normVars>>

\* uuid.uuid4(): the k-th value a request draws.  No value is drawn twice.
uuid4(r, k) == 3 * (r - 1) + k

\* capture_tweet, lines 189-226: from entry to the await of screenshot.
\* Requests are numbered in the order they arrive.
Receive(r) ==
    /\ startup = "up"
    /\ pc[r] = "idle"
    /\ r > 1 => pc[r - 1] # "idle"
    /\ \E q \in RequestSamples :
        /\ validate_tweet_url(q.url)
        /\ request' = [request EXCEPT ![r] = Some(q)]
        /\ object_name' = [object_name EXCEPT
               ![r] = Some(generate_filename(q.url, q.filename, clock, uuid4(r, 0)))]
    /\ start_time' = [start_time EXCEPT ![r] = clock]
    /\ temp_file_path' = [temp_file_path EXCEPT ![r] = Some(<<"temp_", uuid4(r, 1)>>)]
    /\ pc' = [pc EXCEPT ![r] = "screenshot"]
    /\ UNCHANGED <<endpoint, bucket, startup, startup_error, clock, final_file_path,
                   response, failed_at, uploads, tasks, cleaned, disk, store, normVars>>

\* os.path.getsize(final_file_path), left symbolic
getsize(path) == <<"bytes of", path>>

\* minio_client.fput_object: the object replaces any object of the same key
fput_object(objects, name, r) == {o \in objects : o[1] # name} \cup {<<name, r>>}

\* what process_for_instagram does with the file screenshot wrote: NoRaster
\* stands for a file Image.open cannot read
Normalized(raster, q) ==
    IF raster = NoRaster
    THEN [ok |-> FALSE, error |-> UnreadableError]
    ELSE IF process_for_instagram(raster, size_w, size_h, HasMedia(q.flags), q.crop_top).ok
         THEN [ok |-> TRUE, error |-> <<>>]
         ELSE [ok |-> FALSE, error |-> ResizeError]

\* capture_tweet, lines 226 and 265-275: screenshot raises; it may have
\* written part of its file before
ScreenshotRaises(r) ==
    /\ pc[r] = "screenshot"
    /\ \E e \in CaptureErrors, partial \in BOOLEAN :
        /\ disk' = IF partial THEN disk \cup {temp_file_path[r][1]} ELSE disk
        /\ response' = [response EXCEPT
                            ![r] = Some(ErrorResponse(e, clock - start_time[r]))]
    /\ failed_at' = [failed_at EXCEPT ![r] = "capture"]
    /\ tasks' = [tasks EXCEPT ![r] = ExceptTasks(temp_file_path[r], final_file_path[r])]
    /\ pc' = [pc EXCEPT ![r] = "responded"]
    /\ UNCHANGED <<endpoint, bucket, startup, startup_error, clock, request,
                   start_time, object_name, temp_file_path, final_file_path, uploads,
                   cleaned, store, normVars>>

\* capture_tweet, lines 226-245 and 265-275: screenshot returns and
\* process_for_instagram raises
NormalizeRaises(r) ==
    /\ pc[r] = "screenshot"
    /\ \E raster \in Rasters \cup {NoRaster} :
        LET n == Normalized(raster, request[r][1])
        IN  /\ ~n.ok
            /\ response' = [response EXCEPT
                                ![r] = Some(ErrorResponse(n.error, clock - start_time[r]))]
    /\ final_file_path' = [final_file_path EXCEPT ![r] = Some(<<"", uuid4(r, 2)>>)]
    /\ disk' = disk \cup {temp_file_path[r][1]}
    /\ failed_at' = [failed_at EXCEPT ![r] = "normalize"]
    /\ tasks' = [tasks EXCEPT ![r] = ExceptTasks(temp_file_path[r], final_file_path'[r])]
    /\ pc' = [pc EXCEPT ![r] = "responded"]
    /\ UNCHANGED <<endpoint, bucket, startup, startup_error, clock, request, start_time,
                   object_name, temp_file_path, uploads, cleaned, store, normVars>>

\* capture_tweet, lines 226-248 and 265-275, with upload_to_minio, lines
\* 97-103: fput_object raises S3Error, upload_to_minio raises
\* HTTPException(500), and the handler's "except Exception" catches it
UploadRaises(r) ==
    /\ pc[r] = "screenshot"
    /\ \E raster \in Rasters : Normalized(raster, request[r][1]).ok
    /\ final_file_path' = [final_file_path EXCEPT ![r] = Some(<<"", uuid4(r, 2)>>)]
    /\ disk' = disk \cup {temp_file_path[r][1], final_file_path'[r][1]}
    /\ uploads' = [uploads EXCEPT ![r] = @ + 1]
    /\ failed_at' = [failed_at EXCEPT ![r] = "upload"]
    /\ response' = [response EXCEPT
                        ![r] = Some(ErrorResponse(UploadError, clock - start_time[r]))]
    /\ tasks' = [tasks EXCEPT ![r] = ExceptTasks(temp_file_path[r], final_file_path'[r])]
    /\ pc' = [pc EXCEPT ![r] = "responded"]
    /\ UNCHANGED <<endpoint, bucket, startup, startup_error, clock, request, start_time,
                   object_name, temp_file_path, cleaned, store, normVars>>

\* capture_tweet, lines 226-263: the success path
Succeeds(r) ==
    /\ pc[r] = "screenshot"
    /\ \E raster \in Rasters : Normalized(raster, request[r][1]).ok
    /\ final_file_path' = [final_file_path EXCEPT ![r] = Some(<<"", uuid4(r, 2)>>)]
    /\ disk' = disk \cup {temp_file_path[r][1], final_file_path'[r][1]}
    /\ uploads' = [uploads EXCEPT ![r] = @ + 1]
    /\ store' = fput_object(store, object_name[r][1], r)
    /\ response' = [response EXCEPT
                        ![r] = Some(SuccessResponse(
                                   upload_url(endpoint, object_name[r][1]),
                                   object_name[r][1],
                                   getsize(final_file_path'[r][1]),
                                   clock - start_time[r]))]
    /\ tasks' = [tasks EXCEPT
                     ![r] = SuccessTasks(temp_file_path[r][1], final_file_path'[r][1])]
    /\ pc' = [pc EXCEPT ![r] = "responded"]
    /\ UNCHANGED <<endpoint, bucket, startup, startup_error, clock, request, start_time,
                   object_name, temp_file_path, failed_at, cleaned, normVars>>

\* cleanup_temp_file, lines 116-121: remove_ok is whether os.remove succeeds
cleanup_temp_file(file_path, files, remove_ok) ==
    IF file_path \in files
    THEN IF remove_ok
         THEN [disk |-> files \ {file_path}, outcome |-> "removed"]
         ELSE [disk |-> files, outcome |-> "failed"]
    ELSE [disk |-> files, outcome |-> "absent"]

\* BackgroundTasks.__call__ of the framework: the tasks run in the order they
\* were added; oks[i] is whether os.remove would succeed in the i-th task
RECURSIVE RunTasks(_, _, _)
RunTasks(ts, files, oks) ==
    IF ts = <<>>
    THEN [disk |-> files, log |-> <<>>]
    ELSE LET c == cleanup_temp_file(Head(ts), files, Head(oks))
             rest == RunTasks(Tail(ts), c.disk, Tail(oks))
         IN  [disk |-> rest.disk,
              log |-> <<[path |-> Head(ts), outcome |-> c.outcome]>> \o rest.log]

\* the background tasks of a request run, after its response was sent.
\* cleanup_temp_file never awaits, so the tasks of one response run without
\* another request's code in between; this ends the request's lifetime.
RunBackgroundTasks(r) ==
    /\ pc[r] = "responded"
    /\ \E oks \in [1..Len(tasks[r]) -> BOOLEAN] :
        LET done == RunTasks(tasks[r], disk, oks)
        IN  /\ disk' = done.disk
            /\ cleaned' = [cleaned EXCEPT ![r] = done.log]
    /\ tasks' = [tasks EXCEPT ![r] = <<>>]
    /\ pc' = [pc EXCEPT ![r] = "closed"]
    /\ UNCHANGED <<endpoint, bucket, startup, startup_error, clock, request,
                   start_time, object_name, temp_file_path, final_file_path, response,
                   failed_at, uploads, store, normVars>>

Init == SvcInit(NReq) /\ NormIdle

Next ==
    \/ BucketExists
    \/ MakeBucket
    \/ StorageUnavailable
    \/ OtherProcessMakesBucket
    \/ Tick
    \/ \E r \in Reqs : Receive(r)
    \/ \E r \in Reqs : ScreenshotRaises(r)
    \/ \E r \in Reqs : NormalizeRaises(r)
    \/ \E r \in Reqs : UploadRaises(r)
    \/ \E r \in Reqs : Succeeds(r)
    \/ \E r \in Reqs : RunBackgroundTasks(r)

\* runs of NReq requests
Spec == Init /\ [][Next]_vars

\* runs with one request more, for what only two requests can show when
\* NReq is 1
InitConcurrent == SvcInit(NReq + 1) /\ NormIdle
SpecConcurrent == InitConcurrent /\ [][Next]_vars

\* ------------------------------------------------------------- claims
\* C6 (as stated): has_media is true unless hide_all_medias is set AND all
\* five individual hide flags are set.
C6_HasMediaUnlessAllSet ==
    npc # "start" =>
        (has_media <=> ~(flags.hide_all_medias /\ \A n \in IndividualFlags : flags[n]))

\* C6 (amended): has_media is false exactly when hide_all_medias is set OR
\* all five individual hide flags are set.
C6_HasMediaAmended ==
    npc # "start" =>
        (~has_media <=> (flags.hide_all_medias \/ \A n \in IndividualFlags : flags[n]))

C6_Witness ==
    /\ npc # "start"
    /\ flags.hide_all_medias
    /\ ~flags.hide_photos
    /\ ~has_media

\* C7: without media and with crop_top < h exactly crop_top rows are removed
\* from the top; with crop_top >= h, or with media, the raster is used as it
\* is; the region handed to the fit step always has height >= 1.
C7_CropGuard ==
    npc \in {"cropped", "fitted", "ValueError", "saved"} =>
        /\ (~has_media /\ crop_top < img.h) =>
               /\ cropped = [w |-> img.w, h |-> img.h - crop_top, top |-> crop_top]
               /\ cropped.h >= 1
        /\ (~has_media /\ crop_top >= img.h) => cropped = img
        /\ has_media => cropped = img
        /\ cropped.h >= 1

C7_Witness ==
    /\ npc = "cropped"
    /\ ~has_media
    /\ crop_top > 0
    /\ crop_top = img.h - 1
    /\ cropped.h = 1

\* C8: for every source size the saved canvas is 1080x1350, the foreground
\* has 1 <= scaled_w <= 1080 and 1 <= scaled_h <= 1350 with equality on one
\* axis, and is pasted at the non-negative floor-centred offset; 800x600
\* gives 1080x810 at (0, 270).
C8_ContainFit ==
    /\ npc \in {"fitted", "ValueError", "saved"} =>
           /\ 1 <= fg_fit.w /\ fg_fit.w <= 1080
           /\ 1 <= fg_fit.h /\ fg_fit.h <= 1350
           /\ fg_fit.w = 1080 \/ fg_fit.h = 1350
    /\ npc = "saved" =>
           /\ bg = [w |-> 1080, h |-> 1350]
           /\ off = [x |-> (1080 - fg_fit.w) \div 2, y |-> (1350 - fg_fit.h) \div 2]
           /\ off.x >= 0 /\ off.y >= 0
           /\ (cropped.w = 800 /\ cropped.h = 600) =>
                  (fg_fit = [w |-> 1080, h |-> 810] /\ off = [x |-> 0, y |-> 270])

\* C1: an upload failure after capture and normalisation ends POST /capture
\* with HTTP 500, not with an HTTP 200 body carrying success=false.
C1_UploadFailureIsHttp500 ==
    \A r \in Reqs :
        (failed_at[r] = "upload" /\ response[r] # None) =>
            response[r][1].status = 500

\* C2: when the capture engine or the normaliser raises, the handler returns
\* normally with success=false, a non-empty message, no file_url, filename or
\* file_size, a processing_time >= 0, and never attempts the upload.
C2_SoftFailure ==
    \A r \in Reqs :
        failed_at[r] \in {"capture", "normalize"} =>
            /\ response[r] # None
            /\ response[r][1].status = 200
            /\ ~response[r][1].success
            /\ response[r][1].message # <<>>
            /\ response[r][1].file_url = None
            /\ response[r][1].filename = None
            /\ response[r][1].file_size = None
            /\ response[r][1].processing_time # None
            /\ response[r][1].processing_time[1] >= 0
            /\ uploads[r] = 0

C2_Witness ==
    \E r \in Reqs :
        /\ failed_at[r] = "normalize"
        /\ response[r] # None
        /\ response[r][1].processing_time = Some(1)

\* the temporary file paths a request has created
Created(r) == temp_file_path[r] \o final_file_path[r]
\* the runs of cleanup_temp_file on path p for request r
Runs(r, p) == {i \in DOMAIN cleaned[r] : cleaned[r][i].path = p}

\* C3 (as stated): on every path through the handler each temporary file
\* path the request created is scheduled for deletion and deleted exactly
\* once before the request's lifetime ends.
C3_DeletedExactlyOnce ==
    \A r \in Reqs :
        pc[r] = "closed" =>
            \A k \in DOMAIN Created(r) :
                /\ Cardinality(Runs(r, Created(r)[k])) = 1
                /\ Created(r)[k] \notin disk

\* C3 (amended): each temporary file path the request created is scheduled
\* exactly once, cleanup_temp_file runs on it exactly once before the
\* request's lifetime ends, and the file is gone afterwards unless os.remove
\* raised, which is logged and leaves the file.
C3_CleanupRunsExactlyOnce ==
    \A r \in Reqs :
        /\ pc[r] = "responded" => tasks[r] = Created(r)
        /\ pc[r] = "closed" =>
               /\ tasks[r] = <<>>
               /\ Len(cleaned[r]) = Len(Created(r))
               /\ \A k \in DOMAIN Created(r) :
                      /\ Cardinality(Runs(r, Created(r)[k])) = 1
                      /\ Created(r)[k] \in disk =>
                             \A i \in Runs(r, Created(r)[k]) :
                                 cleaned[r][i].outcome = "failed"

C3_Witness ==
    \E r \in Reqs :
        /\ pc[r] = "closed"
        /\ failed_at[r] = "upload"
        /\ Len(cleaned[r]) = 2
        /\ \A i \in DOMAIN cleaned[r] : cleaned[r][i].outcome = "removed"
        /\ disk = {}

\* C4: whenever a request ends in failure, no object exists in the store
\* under that request's object key.
C4_NoObjectUnderFailedKey ==
    \A r \in Reqs :
        (response[r] # None /\ ~response[r][1].success) =>
            \A o \in store : o[1] # object_name[r][1]

\* C5: no two requests are ever given the same object key.
C5_KeysNeverShared ==
    \A r1, r2 \in Reqs :
        (r1 # r2 /\ object_name[r1] # None /\ object_name[r2] # None) =>
            object_name[r1] # object_name[r2]

\* C9: when the bucket appears between bucket_exists and make_bucket, so
\* that make_bucket reports that it already exists, startup still completes.
C9_RaceTreatedAsSuccess ==
    ~(startup = "failed" /\ startup_error = Some("BucketAlreadyOwnedByYou"))

\* the first occurrence of old in s replaced by new
RECURSIVE ReplaceFirstFrom(_, _, _, _)
ReplaceFirstFrom(s, old, new, i) ==
    IF i > Len(s) THEN <<>>
    ELSE IF IsPrefixAt(old, s, i)
         THEN new \o SubSeq(s, i + Len(old), Len(s))
         ELSE <<s[i]>> \o ReplaceFirstFrom(s, old, new, i + 1)

\* C10: on success the returned file_url is the publisher's URL with the
\* service name in the host segment substituted once; the bucket and the key
\* are unchanged, so the URL ends with the returned filename.
C10_OnlyHostRewritten ==
    \A r \in Reqs :
        (response[r] # None /\ response[r][1].success) =>
            response[r][1].file_url =
                Some(ReplaceFirstFrom(endpoint, S_storage, S_storage_api, 1)
                         \o <<"/">> \o MINIO_BUCKET \o <<"/">>
                         \o response[r][1].filename[1])

====
